---- MODULE Spec2Model ----
(***************************************************************************)
(* Rate-limited task queue of the Node.js API cluster (app.js, worker.js). *)
(*                                                                         *)
(* POST /task admits a work item for a user: a per-minute counter and a    *)
(* "rate limit exceeded" flag in Redis decide whether the item is queued   *)
(* at once (200) or with a delay to the next minute (429).  Each of the    *)
(* two cluster workers then takes items from the queue one at a time,      *)
(* takes the per-user lock (SET NX EX 5), waits until a second has passed  *)
(* since the stored last execution, runs the task, stores the new last     *)
(* execution time and deletes the lock.                                    *)
(*                                                                         *)
(* Time is the wall clock in milliseconds (Date.now()).  Every await of    *)
(* the JavaScript code is a point where other handlers run and where time  *)
(* may pass, so every handler is cut into one action per await.            *)
(***************************************************************************)
EXTENDS Integers, Sequences, FiniteSets, Bags, TLC

----------------------------------------------------------------------------
(* Program constants *)

tasksPerMinute == 20
MinuteMs == 60000
CounterTtlSec == 60
FlagTtlSec == 60
LockTtlSec == 5
PollMs == 100
SpacingMs == 1000
numReplicas == 2

(* Bounds of the model *)

\* calls with a user id that a behaviour of one-at-a-time calls receives
MaxCalls == 23
\* calls with a user id that a behaviour of concurrent calls receives
MaxBurst == 3
\* calls in flight at the same time in a behaviour of concurrent calls
MaxInFlight == 2
\* clock ticks of a behaviour of one-at-a-time calls
SeqTicks == 4
\* clock ticks of a behaviour of concurrent calls
AdmitTicks == 1
\* clock ticks of a scheduler behaviour
SchedTicks == 12
\* calls and clock ticks of a behaviour of calls and workers together
RateCalls == 1
RateTicks == 21
\* queue items a scheduler behaviour starts with
MaxJobs == 3
\* calls and clock steps of the specification with delayed items
DelayCalls == 2
DelayTicks == 3
\* ready items in the queue of the fair specification
LiveJobs == 3

Keys == {"u1", "u2"}
\* the users of the items a scheduler behaviour starts with
SchedKeys == {"u1"}
\* calls of the current minute already answered 200 when a warm behaviour starts
Warm == tasksPerMinute - 2
\* the body's user_id; "" is a body without one (falsy in JavaScript)
Bodies == Keys \cup {""}
Replicas == 1..numReplicas
\* the wall clock at the start of a behaviour
StartTimes == {0, 45500}
\* the clock's step: a third of a minute for the calls, half the spacing for
\* the workers, the spacing when calls and workers run together
AdmitStep == MinuteMs \div 3
SchedStep == SpacingMs \div 2
RateStep == SpacingMs
LiveStep == (LockTtlSec * 1000) \div 2
\* enough clock steps for every lease of every item to run out
LiveTicks == 3 * LiveJobs + 2

VARIABLES
    now,        \* Date.now(), ms
    t0,         \* the clock when the behaviour started
    storeUp,    \* whether Redis answers
    redis,      \* the keys of Redis: key -> [val, exp]; exp = 0: no TTL
    queue,      \* bag of queue items [user_id, readyAt]
    reqs,       \* POST /task calls in flight
    resp,       \* the HTTP response the last step sent, if any
    left,       \* calls with a user id the behaviour may still receive
    calls,      \* per user, calls received so far
    admWin,     \* per user, the minute admCnt counts
    admCnt,     \* per user, 200 responses to calls made and answered in admWin
    job,        \* per replica, the pipeline of the queue item it processes
    lastInvoke, \* per user, when task() was last invoked (-1: never)
    execWin,    \* per user, the minute execCnt counts
    execCnt,    \* per user, invocations of task() in minute execWin
    overrun,    \* per user, a pipeline has held the lock past its lease
    bull        \* how many jobs the queue has been told completed and failed

vars == <<now, t0, storeUp, redis, queue, reqs, resp, left, calls,
          admWin, admCnt, job, lastInvoke, execWin, execCnt, overrun, bull>>

schedVars == <<job, lastInvoke, execWin, execCnt, overrun, bull>>

----------------------------------------------------------------------------
(* Redis *)

Key(kind, user_id, minute) == <<kind, user_id, minute>>
rateLimitKey(user_id, minute) == Key("rateLimit", user_id, minute)
exceededKey(user_id) == Key("rateLimitExceeded", user_id, 0)
lockKey(user_id) == Key("lock", user_id, 0)
lastExecutionKey(user_id) == Key("lastExecution", user_id, 0)

Exists(s, k) == k \in DOMAIN s

\* SET k v : the key loses any TTL it had
Set(s, k, v) ==
    [x \in DOMAIN s \cup {k} |-> IF x = k THEN [val |-> v, exp |-> 0] ELSE s[x]]

\* SET k v EX secs
SetEx(s, k, v, secs, t) ==
    [x \in DOMAIN s \cup {k} |->
        IF x = k THEN [val |-> v, exp |-> t + secs * 1000] ELSE s[x]]

\* SET k v NX EX secs : only when the key is absent
SetNxEx(s, k, v, secs, t) ==
    IF Exists(s, k) THEN s ELSE SetEx(s, k, v, secs, t)

\* INCR k : an absent key counts from 0 and gets no TTL
Incr(s, k) ==
    IF Exists(s, k)
    THEN [s EXCEPT ![k].val = @ + 1]
    ELSE [x \in DOMAIN s \cup {k} |->
            IF x = k THEN [val |-> 1, exp |-> 0] ELSE s[x]]

\* EXPIRE k secs
Expire(s, k, secs, t) ==
    IF Exists(s, k) THEN [s EXCEPT ![k].exp = t + secs * 1000] ELSE s

\* DEL k
Del(s, k) == [x \in DOMAIN s \ {k} |-> s[x]]

\* Redis drops a key once its TTL has run out
Purge(s, t) == [x \in {y \in DOMAIN s : s[y].exp = 0 \/ t < s[y].exp} |-> s[x]]

----------------------------------------------------------------------------
(* POST /task *)

currentMinute(currentTime) == currentTime \div MinuteMs

\* mutant (not the code): half the time left in the minute
delayTime_half(currentTime) == (MinuteMs - (currentTime % MinuteMs)) \div 2

\* delay until the next minute
delayTime(currentTime) == MinuteMs - (currentTime % MinuteMs)

\* mutants (not the code): the comparison off by one, either way
RateLimited_slack(taskCount) == taskCount > tasksPerMinute + 1
RateLimited_early(taskCount) == taskCount >= tasksPerMinute

\* taskCount > rateLimitConfig.tasksPerMinute
RateLimited(taskCount) == taskCount > tasksPerMinute

NoResp == [status |-> 0, user_id |-> "", delay |-> 0, k |-> 0]
Response(status, r, delay) ==
    [status |-> status, user_id |-> r.user_id, delay |-> delay, k |-> r.k]

Item(user_id, readyAt) == [user_id |-> user_id, readyAt |-> readyAt]
\* mutant (not the code): a delayed item is dropped
QueueAdd_dropDelayed(q, user_id, delay, t) ==
    IF delay = 0 THEN q (+) SetToBag({Item(user_id, 0)}) ELSE q

\* taskQueue.add(data, {delay}): ready `delay` after the add; readyAt 0: at once
QueueAdd(q, user_id, delay, t) ==
    q (+) SetToBag({Item(user_id, IF delay = 0 THEN 0 ELSE t + delay)})

\* mutant (not the code): a Redis error lets the call through
Fail_open(r) ==
    /\ reqs' = reqs \ {r}
    /\ queue' = QueueAdd(queue, r.user_id, 0, now)
    /\ resp' = Response(200, r, 0)
    /\ UNCHANGED <<redis, left, calls, admWin, admCnt>>

\* the catch block: 500
Fail(r) ==
    /\ reqs' = reqs \ {r}
    /\ resp' = Response(500, r, 0)
    /\ UNCHANGED <<redis, queue, left, calls, admWin, admCnt>>

\* mutant (not the code): no validation
Missing_never(user_id) == FALSE

\* !user_id
Missing(user_id) == user_id = ""

\* the handler up to its first await: validation and Date.now()
Receive(body) ==
    /\ IF Missing(body)
       THEN /\ resp' = [NoResp EXCEPT !.status = 400]
            /\ UNCHANGED <<reqs, left, calls>>
       ELSE /\ left > 0
            /\ left' = left - 1
            /\ reqs' = reqs \cup {[user_id |-> body, k |-> calls[body] + 1,
                                   currentTime |-> now, pc |-> "getFlag"]}
            /\ calls' = [calls EXCEPT ![body] = @ + 1]
            /\ resp' = NoResp
    /\ UNCHANGED <<now, t0, storeUp, redis, queue, admWin, admCnt>>
    /\ UNCHANGED schedVars

\* mutant (not the code): the flag is read and not looked at
GetFlag_ignored(r) ==
    /\ r.pc = "getFlag"
    /\ IF ~storeUp
       THEN Fail(r)
       ELSE /\ reqs' = (reqs \ {r}) \cup {[r EXCEPT !.pc = "incr"]}
            /\ resp' = NoResp
            /\ UNCHANGED <<redis, queue, left, calls, admWin, admCnt>>
    /\ UNCHANGED <<now, t0, storeUp>>
    /\ UNCHANGED schedVars

\* redis.get(`rateLimitExceeded:${user_id}`)
GetFlag(r) ==
    /\ r.pc = "getFlag"
    /\ IF ~storeUp
       THEN Fail(r)
       ELSE /\ reqs' = (reqs \ {r}) \cup
                  {[r EXCEPT !.pc = IF Exists(redis, exceededKey(r.user_id))
                                    THEN "addDelayed" ELSE "incr"]}
            /\ resp' = NoResp
            /\ UNCHANGED <<redis, queue, left, calls, admWin, admCnt>>
    /\ UNCHANGED <<now, t0, storeUp>>
    /\ UNCHANGED schedVars

AfterCount(taskCount) == IF RateLimited(taskCount) THEN "setFlag" ELSE "add"

\* redis.incr(redisKey)
IncrCount(r) ==
    /\ r.pc = "incr"
    /\ IF ~storeUp
       THEN Fail(r)
       ELSE LET redisKey == rateLimitKey(r.user_id, currentMinute(r.currentTime))
                s == Incr(redis, redisKey)
                taskCount == s[redisKey].val
            IN /\ redis' = s
               /\ reqs' = (reqs \ {r}) \cup
                     {[r EXCEPT !.pc = IF taskCount = 1 THEN "expire"
                                       ELSE AfterCount(taskCount)]}
               /\ resp' = NoResp
               /\ UNCHANGED <<queue, left, calls, admWin, admCnt>>
    /\ UNCHANGED <<now, t0, storeUp>>
    /\ UNCHANGED schedVars

\* redis.expire(redisKey, 60), which only a call with taskCount === 1 reaches
ExpireCount(r) ==
    /\ r.pc = "expire"
    /\ IF ~storeUp
       THEN Fail(r)
       ELSE /\ redis' = Expire(redis,
                   rateLimitKey(r.user_id, currentMinute(r.currentTime)),
                   CounterTtlSec, now)
            /\ reqs' = (reqs \ {r}) \cup {[r EXCEPT !.pc = AfterCount(1)]}
            /\ resp' = NoResp
            /\ UNCHANGED <<queue, left, calls, admWin, admCnt>>
    /\ UNCHANGED <<now, t0, storeUp>>
    /\ UNCHANGED schedVars

\* redis.set(`rateLimitExceeded:${user_id}`, true, "EX", 60)
SetFlag(r) ==
    /\ r.pc = "setFlag"
    /\ IF ~storeUp
       THEN Fail(r)
       ELSE /\ redis' = SetEx(redis, exceededKey(r.user_id), "true", FlagTtlSec, now)
            /\ reqs' = (reqs \ {r}) \cup {[r EXCEPT !.pc = "addDelayed"]}
            /\ resp' = NoResp
            /\ UNCHANGED <<queue, left, calls, admWin, admCnt>>
    /\ UNCHANGED <<now, t0, storeUp>>
    /\ UNCHANGED schedVars

\* taskQueue.add({ user_id }, { delay: delayTime }) and the 429
AddDelayed(r) ==
    /\ r.pc = "addDelayed"
    /\ IF ~storeUp
       THEN Fail(r)
       ELSE /\ queue' = QueueAdd(queue, r.user_id, delayTime(r.currentTime), now)
            /\ reqs' = reqs \ {r}
            /\ resp' = Response(429, r, delayTime(r.currentTime))
            /\ UNCHANGED <<redis, left, calls, admWin, admCnt>>
    /\ UNCHANGED <<now, t0, storeUp>>
    /\ UNCHANGED schedVars

\* taskQueue.add({ user_id }) and the 200
Add(r) ==
    /\ r.pc = "add"
    /\ IF ~storeUp
       THEN Fail(r)
       ELSE LET u == r.user_id
                w == currentMinute(now)
                within == currentMinute(r.currentTime) = w
            IN /\ queue' = QueueAdd(queue, u, 0, now)
               /\ reqs' = reqs \ {r}
               /\ resp' = Response(200, r, 0)
               /\ admWin' = IF within THEN [admWin EXCEPT ![u] = w] ELSE admWin
               /\ admCnt' = IF within
                            THEN [admCnt EXCEPT
                                    ![u] = IF admWin[u] = w THEN @ + 1 ELSE 1]
                            ELSE admCnt
               /\ UNCHANGED <<redis, left, calls>>
    /\ UNCHANGED <<now, t0, storeUp>>
    /\ UNCHANGED schedVars

----------------------------------------------------------------------------
(* Redis going down and coming back *)

StoreDown ==
    /\ storeUp
    /\ storeUp' = FALSE
    /\ resp' = NoResp
    /\ UNCHANGED <<now, t0, redis, queue, reqs, left, calls, admWin, admCnt>>
    /\ UNCHANGED schedVars

StoreBack ==
    /\ ~storeUp
    /\ storeUp' = TRUE
    /\ resp' = NoResp
    /\ UNCHANGED <<now, t0, redis, queue, reqs, left, calls,
                   admWin, admCnt>>
    /\ UNCHANGED schedVars

----------------------------------------------------------------------------
(* taskQueue.process(1, ...): one pipeline per replica *)

Idle == [pc |-> "idle", user_id |-> "", lockAcquired |-> FALSE, wake |-> 0,
         leaseEnd |-> 0, stamp |-> 0]

\* a pipeline whose acquireLock returned true and whose releaseLock has not run
Holder(p) == job[p].lockAcquired

Holders(user_id) == {p \in Replicas : Holder(p) /\ job[p].user_id = user_id}

\* mutant (not the code): SET without NX
acquireLock_noNx(s, user_id, p, t) ==
    [store |-> SetEx(s, lockKey(user_id), p, LockTtlSec, t), ok |-> TRUE]

\* mutant (not the code): SET NX without EX, a lock that never expires
acquireLock_noTtl(s, user_id, p, t) ==
    [store |-> IF Exists(s, lockKey(user_id)) THEN s
               ELSE Set(s, lockKey(user_id), p),
     ok |-> ~Exists(s, lockKey(user_id))]

\* mutant (not the code): the reply of SET is not looked at
acquireLock_alwaysOk(s, user_id, p, t) ==
    [store |-> SetNxEx(s, lockKey(user_id), p, LockTtlSec, t), ok |-> TRUE]

\* redis.set(lockKey, "locked", "NX", "EX", 5) and lock === "OK".  The model
\* stores the replica in place of "locked": no operation reads the value.
acquireLock(s, user_id, p, t) ==
    [store |-> SetNxEx(s, lockKey(user_id), p, LockTtlSec, t),
     ok |-> ~Exists(s, lockKey(user_id))]

\* redis.del(lockKey)
releaseLock(s, user_id, p) == Del(s, lockKey(user_id))

\* Math.max(1000 - elapsedTime, 0), 0 when there is no last execution
spacingDelay(s, user_id, t) ==
    LET k == lastExecutionKey(user_id)
    IN IF Exists(s, k)
       THEN LET elapsedTime == t - s[k].val
            IN IF SpacingMs - elapsedTime > 0 THEN SpacingMs - elapsedTime ELSE 0
       ELSE 0

\* task(user_id) is called: the history of invocations
Invoked(user_id) ==
    LET w == currentMinute(now)
    IN /\ lastInvoke' = [lastInvoke EXCEPT ![user_id] = now]
       /\ execWin' = [execWin EXCEPT ![user_id] = w]
       /\ execCnt' = [execCnt EXCEPT
                        ![user_id] = IF execWin[user_id] = w THEN @ + 1 ELSE 1]

\* the processor returns without an error: bull moves the job to completed
Completed == bull' = [bull EXCEPT !.completed = @ + 1]

\* the catch block of the processor: the error is logged and not thrown
\* again, so the processor returns
Caught(p) == job' = [job EXCEPT ![p] = Idle] /\ Completed

\* the queue hands a ready item to an idle replica
Dequeue(p) ==
    /\ job[p].pc = "idle"
    /\ storeUp
    /\ \E item \in BagToSet(queue) :
          /\ item.readyAt <= now
          /\ queue' = queue (-) SetToBag({item})
          /\ job' = [job EXCEPT ![p] = [Idle EXCEPT !.pc = "acquire",
                                                    !.user_id = item.user_id]]
    /\ resp' = NoResp
    /\ UNCHANGED <<now, t0, storeUp, redis, reqs, left, calls,
                   admWin, admCnt, lastInvoke, execWin, execCnt, overrun, bull>>

\* acquireLock(user_id), the first call or one after sleep(100)
AcquireLock(p) ==
    /\ \/ job[p].pc = "acquire"
       \/ job[p].pc = "retry" /\ now >= job[p].wake
    /\ IF ~storeUp
       THEN Caught(p) /\ UNCHANGED redis
       ELSE LET a == acquireLock(redis, job[p].user_id, p, now)
            IN /\ redis' = a.store
               /\ job' = [job EXCEPT ![p] =
                            IF a.ok
                            THEN [@ EXCEPT !.pc = "getLast", !.lockAcquired = TRUE,
                                           !.wake = 0,
                                           !.leaseEnd = now + LockTtlSec * 1000]
                            ELSE [@ EXCEPT !.pc = "retry", !.wake = now + PollMs]]
               /\ UNCHANGED bull
    /\ resp' = NoResp
    /\ UNCHANGED <<now, t0, storeUp, queue, reqs, left, calls,
                   admWin, admCnt, lastInvoke, execWin, execCnt, overrun>>

\* redis.get(lastExecutionKey), Date.now(), and task(user_id) when no delay is due
GetLast(p) ==
    /\ job[p].pc = "getLast"
    /\ IF ~storeUp
       THEN Caught(p) /\ UNCHANGED <<lastInvoke, execWin, execCnt>>
       ELSE LET delay == spacingDelay(redis, job[p].user_id, now)
            IN IF delay > 0
               THEN /\ job' = [job EXCEPT ![p].pc = "sleep", ![p].wake = now + delay]
                    /\ UNCHANGED <<lastInvoke, execWin, execCnt, bull>>
               ELSE /\ job' = [job EXCEPT ![p].pc = "task"]
                    /\ Invoked(job[p].user_id)
                    /\ UNCHANGED bull
    /\ resp' = NoResp
    /\ UNCHANGED <<now, t0, storeUp, redis, queue, reqs, left, calls,
                   admWin, admCnt, overrun>>

\* sleep(delay) is over: task(user_id)
Invoke(p) ==
    /\ job[p].pc = "sleep"
    /\ now >= job[p].wake
    /\ job' = [job EXCEPT ![p].pc = "task", ![p].wake = 0]
    /\ Invoked(job[p].user_id)
    /\ resp' = NoResp
    /\ UNCHANGED <<now, t0, storeUp, redis, queue, reqs, left, calls,
                   admWin, admCnt, overrun, bull>>

\* mutant (not the code): the lock is released before the time is stored
TaskOk_releaseFirst(p) ==
    /\ job[p].pc = "task"
    /\ job' = [job EXCEPT ![p].pc = "release"]
    /\ resp' = NoResp
    /\ UNCHANGED <<now, t0, storeUp, redis, queue, reqs, left, calls,
                   admWin, admCnt, lastInvoke, execWin, execCnt, overrun, bull>>

\* task() resolves; Date.now() is taken for the new last execution time
TaskOk(p) ==
    /\ job[p].pc = "task"
    /\ job' = [job EXCEPT ![p].pc = "record", ![p].stamp = now]
    /\ resp' = NoResp
    /\ UNCHANGED <<now, t0, storeUp, redis, queue, reqs, left, calls,
                   admWin, admCnt, lastInvoke, execWin, execCnt, overrun, bull>>

\* task() rejects (appendFile failed): the catch block, no release
TaskFail(p) ==
    /\ job[p].pc = "task"
    /\ Caught(p)
    /\ resp' = NoResp
    /\ UNCHANGED <<now, t0, storeUp, redis, queue, reqs, left, calls,
                   admWin, admCnt, lastInvoke, execWin, execCnt, overrun>>

\* redis.set(lastExecutionKey, Date.now())
Record(p) ==
    /\ job[p].pc = "record"
    /\ IF ~storeUp
       THEN Caught(p) /\ UNCHANGED redis
       ELSE /\ redis' = Set(redis, lastExecutionKey(job[p].user_id), job[p].stamp)
            /\ job' = [job EXCEPT ![p].pc = "release", ![p].stamp = 0]
            /\ UNCHANGED bull
    /\ resp' = NoResp
    /\ UNCHANGED <<now, t0, storeUp, queue, reqs, left, calls,
                   admWin, admCnt, lastInvoke, execWin, execCnt, overrun>>

\* releaseLock(user_id); the processor returns and the job is completed
Release(p) ==
    /\ job[p].pc = "release"
    /\ IF ~storeUp
       THEN Caught(p) /\ UNCHANGED redis
       ELSE /\ redis' = releaseLock(redis, job[p].user_id, p)
            /\ job' = [job EXCEPT ![p] = Idle]
            /\ Completed
    /\ resp' = NoResp
    /\ UNCHANGED <<now, t0, storeUp, queue, reqs, left, calls,
                   admWin, admCnt, lastInvoke, execWin, execCnt, overrun>>

----------------------------------------------------------------------------
(* The clock *)

Tick(step, ticks) ==
    /\ now + step <= t0 + step * ticks
    /\ now' = now + step
    /\ redis' = Purge(redis, now')
    /\ resp' = NoResp
    /\ overrun' = [u \in DOMAIN overrun |->
                     overrun[u] \/ \E p \in Holders(u) : now' >= job[p].leaseEnd]
    /\ UNCHANGED <<t0, storeUp, queue, reqs, left, calls, admWin,
                   admCnt, job, lastInvoke, execWin, execCnt, bull>>

----------------------------------------------------------------------------
(* Specifications *)

InitCommon ==
    /\ t0 = now
    /\ storeUp = TRUE
    /\ reqs = {}
    /\ resp = NoResp
    /\ job = [p \in Replicas |-> Idle]
    /\ lastInvoke = [u \in Bodies |-> 0 - 1]
    /\ execWin = [u \in Bodies |-> 0]
    /\ execCnt = [u \in Bodies |-> 0]
    /\ overrun = [u \in Bodies |-> FALSE]
    /\ bull = [completed |-> 0, failed |-> 0]

\* the users in W have each made n one-at-a-time calls at time t, all answered
\* 200 (n <= tasksPerMinute), and no worker has taken an item yet
Answered(W, n, t) ==
    /\ redis = [k \in {rateLimitKey(u, currentMinute(t)) : u \in W} |->
                  [val |-> n, exp |-> t + CounterTtlSec * 1000]]
    /\ queue = [i \in {Item(u, 0) : u \in W} |-> n]
    /\ calls = [u \in Bodies |-> IF u \in W THEN n ELSE 0]
    /\ admWin = [u \in Bodies |-> IF u \in W THEN currentMinute(t) ELSE 0]
    /\ admCnt = [u \in Bodies |-> IF u \in W THEN n ELSE 0]

Handler(r) ==
    \/ GetFlag(r)
    \/ IncrCount(r)
    \/ ExpireCount(r)
    \/ SetFlag(r)
    \/ AddDelayed(r)
    \/ Add(r)

Pipeline(p) ==
    \/ Dequeue(p)
    \/ AcquireLock(p)
    \/ GetLast(p)
    \/ Invoke(p)
    \/ TaskOk(p)
    \/ TaskFail(p)
    \/ Record(p)
    \/ Release(p)

\* one call of a user at a time
ReceiveSeq(body) ==
    /\ Missing(body) \/ reqs = {}
    /\ Receive(body)

\* up to MaxInFlight calls at a time
ReceiveAny(body) ==
    /\ Missing(body) \/ Cardinality(reqs) < MaxInFlight
    /\ Receive(body)

(* SpecSeq: one user's calls one after another, over several minutes,       *)
(* starting from an empty Redis.                                            *)
InitSeq ==
    /\ now \in StartTimes
    /\ InitCommon
    /\ Answered({}, 0, now)
    /\ left = MaxCalls

TickSeq == Tick(AdmitStep, SeqTicks)

NextSeq ==
    \/ \E body \in {"u1", ""} : ReceiveSeq(body)
    \/ \E r \in reqs : Handler(r)
    \/ TickSeq

SpecSeq == InitSeq /\ [][NextSeq]_vars

(* SpecAdmit: concurrent calls of two users, from an empty Redis or with    *)
(* u1 two calls short of this minute's cap.                                 *)
InitAdmit ==
    /\ now \in StartTimes
    /\ InitCommon
    /\ \E W \in {{}, {"u1"}} : Answered(W, Warm, now)
    /\ left = MaxBurst

TickAdmit == Tick(AdmitStep, AdmitTicks)

NextAdmit ==
    \/ \E body \in Bodies : ReceiveAny(body)
    \/ \E r \in reqs : Handler(r)
    \/ TickAdmit

SpecAdmit == InitAdmit /\ [][NextAdmit]_vars

(* SpecOutage: concurrent calls of one user while Redis goes down and comes *)
(* back.                                                                    *)
NextOutage ==
    \/ \E body \in {"u1", ""} : ReceiveAny(body)
    \/ \E r \in reqs : Handler(r)
    \/ TickAdmit
    \/ StoreDown
    \/ StoreBack

SpecOutage == InitAdmit /\ [][NextOutage]_vars

(* SpecSched: the two workers on a queue that holds up to MaxJobs ready     *)
(* items.                                                                   *)
InitSched ==
    /\ now = 0
    /\ InitCommon
    /\ \E n \in 1..MaxJobs : \E W \in SUBSET SchedKeys :
          W # {} /\ Answered(W, n, now) /\ BagCardinality(queue) <= MaxJobs
    /\ left = 0

TickSched == Tick(SchedStep, SchedTicks)

NextSched ==
    \/ \E p \in Replicas : Pipeline(p)
    \/ TickSched

SpecSched == InitSched /\ [][NextSched]_vars

(* SpecRate: calls and workers together.  It starts at the first instant of *)
(* a minute; in the last second of the minute before, u1 made               *)
(* tasksPerMinute calls, all answered 200 and none taken by a worker yet.   *)
InitRate ==
    /\ now = MinuteMs
    /\ InitCommon
    /\ Answered({"u1"}, tasksPerMinute, MinuteMs - SpacingMs)
    /\ left = RateCalls

\* the worker has a step to take that needs no time to pass
Busy(p) ==
    \/ job[p].pc \in {"acquire", "getLast", "task", "record", "release"}
    \/ job[p].pc \in {"retry", "sleep"} /\ now >= job[p].wake
    \/ job[p].pc = "idle" /\ \E item \in BagToSet(queue) : item.readyAt <= now

\* the workers and the handler are prompt: time passes when they wait
TickRate ==
    /\ \A p \in Replicas : ~Busy(p)
    /\ reqs = {}
    /\ Tick(RateStep, RateTicks)

NextRate ==
    \/ \E body \in {"u1"} : ReceiveSeq(body)
    \/ \E r \in reqs : Handler(r)
    \/ \E p \in Replicas : Pipeline(p)
    \/ TickRate

SpecRate == InitRate /\ [][NextRate]_vars

(* SpecLive: the two workers on a queue of up to LiveJobs ready items, under *)
(* fair scheduling.  The clock advances as long as something waits for it   *)
(* (a lock that has a TTL, a sleep); every await of a pipeline is           *)
(* eventually answered, except task(), which may hang.                      *)
InitLive ==
    /\ now = 0
    /\ InitCommon
    /\ \E n \in 1..LiveJobs : Answered(SchedKeys, n, now)
    /\ left = 0

\* a timer is running: a lock's TTL, or a pipeline's sleep
ClockAwaited ==
    \/ \E u \in SchedKeys : Exists(redis, lockKey(u))
    \/ \E p \in Replicas : job[p].pc \in {"retry", "sleep"} /\ job[p].wake > now

TickLive == ClockAwaited /\ Tick(LiveStep, LiveTicks)

NextLive ==
    \/ \E p \in Replicas : Pipeline(p)
    \/ TickLive

FairLive ==
    /\ WF_vars(TickLive)
    /\ \A p \in Replicas :
          /\ WF_vars(Dequeue(p))
          /\ WF_vars(AcquireLock(p))
          /\ WF_vars(GetLast(p))
          /\ WF_vars(Invoke(p))
          /\ WF_vars(Record(p))
          /\ WF_vars(Release(p))

SpecLive == InitLive /\ [][NextLive]_vars /\ FairLive

(* SpecDelay: calls and workers together once the cap of the minute is      *)
(* used up.  At the start of minute 0, u1 made tasksPerMinute calls, all    *)
(* answered 200; the workers ran the items one per second and are idle, and *)
(* the clock is at 45.5 s.  Every further call of the minute is delayed.    *)
InitDelay ==
    LET lastRun == (tasksPerMinute - 1) * SpacingMs
    IN /\ now = 45500
       /\ t0 = now
       /\ storeUp = TRUE
       /\ reqs = {}
       /\ resp = NoResp
       /\ left = DelayCalls
       /\ redis = (rateLimitKey("u1", 0) :>
                      [val |-> tasksPerMinute, exp |-> CounterTtlSec * 1000])
                  @@ (lastExecutionKey("u1") :> [val |-> lastRun, exp |-> 0])
       /\ queue = EmptyBag
       /\ calls = [u \in Bodies |-> IF u = "u1" THEN tasksPerMinute ELSE 0]
       /\ admWin = [u \in Bodies |-> 0]
       /\ admCnt = [u \in Bodies |-> IF u = "u1" THEN tasksPerMinute ELSE 0]
       /\ job = [p \in Replicas |-> Idle]
       /\ lastInvoke = [u \in Bodies |-> IF u = "u1" THEN lastRun ELSE 0 - 1]
       /\ execWin = [u \in Bodies |-> 0]
       /\ execCnt = [u \in Bodies |-> IF u = "u1" THEN tasksPerMinute ELSE 0]
       /\ overrun = [u \in Bodies |-> FALSE]
       /\ bull = [completed |-> tasksPerMinute, failed |-> 0]

TickDelay == Tick(AdmitStep, DelayTicks)

NextDelay ==
    \/ \E body \in {"u1"} : ReceiveSeq(body)
    \/ \E r \in reqs : Handler(r)
    \/ \E p \in Replicas : Pipeline(p)
    \/ TickDelay

SpecDelay == InitDelay /\ [][NextDelay]_vars

Init == InitSeq \/ InitAdmit \/ InitSched \/ InitRate \/ InitLive \/ InitDelay
Next ==
    \/ NextSeq \/ NextAdmit \/ NextOutage \/ NextSched \/ NextRate
    \/ NextLive \/ NextDelay
Spec == Init /\ [][Next]_vars

----------------------------------------------------------------------------
(* Claims *)

\* a step in which replica p calls task(user_id)
Invokes(p) == job[p].pc # "task" /\ job'[p].pc = "task"

\* C1: no two invocations of task() for one user are less than 1000 ms apart,
\* whatever the number of items and workers.
C1_MinSpacing ==
    [][\A p \in Replicas :
          Invokes(p) =>
             LET last == lastInvoke[job[p].user_id]
             IN last < 0 \/ now - last >= SpacingMs]_vars

C3_WindowCap == \A u \in Keys : admCnt[u] <= tasksPerMinute

\* the cap is reached and a call that arrived before the last admitted one
\* was overtaken and answered 429
C3_Witness ==
    \E u \in Keys :
        /\ admCnt[u] = tasksPerMinute
        /\ resp.status = 429 /\ resp.user_id = u
        /\ resp.k < tasksPerMinute

\* C4: for every user, task() is invoked at most 20 times in any one minute,
\* delayed items included.
C4_ExecutionsPerMinute == \A u \in Keys : execCnt[u] <= tasksPerMinute

\* C5: from an empty Redis, with one user's calls made one after another in
\* a single minute, the k-th call gets 200 when k <= 20 and 429 with a delay
\* in 1..60000 ms when k > 20.
C5_Sequential ==
    (resp.status # 0 /\ resp.user_id # ""
        /\ currentMinute(now) = currentMinute(t0)) =>
       IF resp.k <= tasksPerMinute
       THEN resp.status = 200
       ELSE resp.status = 429 /\ resp.delay > 0 /\ resp.delay <= MinuteMs

C5_Witness ==
    /\ resp.status = 429
    /\ resp.k = tasksPerMinute + 1
    /\ resp.delay < MinuteMs
    /\ currentMinute(now) = currentMinute(t0)

\* the call r ends in this step
Completes(r) ==
    /\ r \in reqs
    /\ ~ \E r2 \in reqs' : r2.user_id = r.user_id /\ r2.k = r.k

C7_NothingDropped ==
    [][/\ \A r \in reqs :
             (Completes(r) /\ storeUp) =>
                /\ resp'.status \in {200, 429}
                /\ resp'.user_id = r.user_id /\ resp'.k = r.k
                /\ \E readyAt \in {0, now + resp'.delay} :
                      /\ queue' = queue (+) SetToBag({Item(r.user_id, readyAt)})
                      /\ resp'.status = 200 <=> readyAt = 0
                      /\ resp'.status = 429 <=> (resp'.delay > 0 /\ readyAt > now)
       /\ (\A r \in reqs : ~Completes(r)) => queue' = queue]_vars

C7_Witness ==
    /\ resp.status = 429
    /\ BagIn(Item(resp.user_id, now + resp.delay), queue)
    /\ BagIn(Item(resp.user_id, 0), queue)

\* C8: a releaseLock issued when the releaser's own lease has run out leaves
\* Redis as it is; it does not delete the lock another pipeline now holds.
C8_StaleReleaseNoOp ==
    [][\A p \in Replicas :
          (job[p].pc = "release" /\ job'[p].pc = "idle" /\ storeUp
              /\ now >= job[p].leaseEnd)
          => redis' = redis]_vars

\* a step in which replica p calls acquireLock
Calls(p) ==
    /\ job[p].pc \in {"acquire", "retry"}
    /\ job'[p] # job[p]

\* C9: acquireLock returns true exactly when no lock of the user exists, and
\* then the lock exists, so of two calls at the same instant with nothing in
\* between one returns true and the other false; the loser sleeps 100 ms and
\* calls again, and only a pipeline whose own call returned true goes on to
\* the spacing step.
C9_RaceOneWinner ==
    /\ [](\A p \in Replicas :
            /\ job[p].pc \in {"getLast", "sleep", "task", "record", "release"}
                  => job[p].lockAcquired
            /\ job[p].pc \in {"acquire", "retry"} => ~job[p].lockAcquired)
    /\ [][\A p \in Replicas :
            Calls(p) =>
               LET k == lockKey(job[p].user_id)
               IN /\ job[p].pc = "retry" => now >= job[p].wake
                  /\ IF Exists(redis, k)
                     THEN /\ job'[p].pc = "retry"
                          /\ job'[p].wake = now + PollMs
                          /\ redis' = redis
                     ELSE /\ job'[p].pc = "getLast"
                          /\ Exists(redis', k)
                          /\ redis'[k].exp = now + LockTtlSec * 1000]_vars

C9_Witness ==
    \E p, q \in Replicas :
        /\ p # q /\ job[p].user_id = job[q].user_id
        /\ job[p].pc = "getLast" /\ job[p].leaseEnd = now + LockTtlSec * 1000
        /\ job[q].pc = "retry" /\ job[q].wake = now + PollMs

\* C10: a call without a user id is answered 400 and changes nothing: no
\* call, queue item or Redis key ever carries the empty user id, and the step
\* that answers 400 leaves Redis, the queue and the calls in flight alone.
C10_ValidationError ==
    /\ [](/\ \A r \in reqs : r.user_id # ""
          /\ \A i \in BagToSet(queue) : i.user_id # ""
          /\ \A k \in DOMAIN redis : k[2] # "")
    /\ [][resp'.status = 400 =>
             /\ resp'.user_id = ""
             /\ UNCHANGED <<redis, queue, reqs, calls, job>>]_vars

C10_Witness ==
    /\ resp.status = 400
    /\ reqs # {}
    /\ DOMAIN redis # {}
    /\ queue # EmptyBag

\* C11: a call with a valid user id that is answered while Redis is down has
\* its task stored (one more queue item of that user), so that the task can run
\* once Redis is back.
C11_StoredWhileDown ==
    [][\A r \in reqs :
          (Completes(r) /\ ~storeUp) =>
              \E item \in BagToSet(queue') :
                  /\ item.user_id = r.user_id
                  /\ CopiesIn(item, queue') = CopiesIn(item, queue) + 1]_vars

\* the pipeline of replica p ends in this step because task() failed
FailsTask(p) == job[p].pc = "task" /\ job'[p].pc = "idle"

\* C12: when task() fails, the pipeline ends with the lock it acquired no
\* longer in Redis.
C12_ReleaseOnFailure ==
    [][\A p \in Replicas :
          FailsTask(p) =>
              LET k == lockKey(job[p].user_id)
              IN ~(Exists(redis', k) /\ redis'[k].exp = job[p].leaseEnd)]_vars

\* C13: when task() fails, the queue is told that the job failed, and is not
\* told that it completed.
C13_FailureReported ==
    [][\A p \in Replicas :
          FailsTask(p) => /\ bull'.failed = bull.failed + 1
                          /\ bull'.completed = bull.completed]_vars

\* C14: a "rate limit exceeded" flag that is in Redis expires no later than
\* the end of the current minute, so it is never there in a minute after the
\* one in which it was set.
C14_FlagWithinWindow ==
    \A u \in Keys :
        Exists(redis, exceededKey(u)) =>
            redis[exceededKey(u)].exp <= (currentMinute(now) + 1) * MinuteMs

\* the pipeline of replica p is waiting for the lock
Waiting(p) == job[p].pc \in {"acquire", "retry"}

\* C15: under fair scheduling, a pipeline that waits for the lock of a user
\* eventually acquires it, whether the previous holder released it, hangs in
\* task(), or ended without releasing.
C15_LockLiveness == \A p \in Replicas : Waiting(p) ~> Holder(p)

\* a pipeline polls for a lock that is still in Redis although the pipeline
\* that took it has ended
C15_Witness ==
    \E p \in Replicas :
        /\ job[p].pc = "retry"
        /\ Exists(redis, lockKey(job[p].user_id))
        /\ Holders(job[p].user_id) = {}

\* the clock of SpecLive never stops while a timer is running
LiveClockRuns == ClockAwaited => now + LiveStep <= t0 + LiveStep * LiveTicks

\* the steps a pipeline may take, as pairs of places before and after
PipelineOrder ==
    {<<"idle", "acquire">>, <<"acquire", "retry">>, <<"retry", "retry">>,
     <<"acquire", "getLast">>, <<"retry", "getLast">>,
     <<"getLast", "sleep">>, <<"getLast", "task">>, <<"sleep", "task">>,
     <<"task", "record">>, <<"record", "release">>, <<"release", "idle">>,
     <<"task", "idle">>}

\* C16: a pipeline goes through acquireLock (until it returns true), the read
\* of the last execution time and the spacing wait, task(), the write of the
\* new last execution time, and the release, in this order; only a pipeline
\* that holds the lock reads the time, only the step after task() has
\* completed writes it, and the lock is deleted only by the step after that.
C16_PipelineOrder ==
    [][ /\ \A p \in Replicas :
            job'[p] # job[p] =>
               /\ <<job[p].pc, job'[p].pc>> \in PipelineOrder
               /\ job[p].pc = "getLast" => job[p].lockAcquired
               /\ job'[p].pc = "record" => job'[p].stamp = now
        /\ \A u \in SchedKeys :
            LET k == lastExecutionKey(u)
                written == Exists(redis', k) /\ (Exists(redis, k) => redis'[k] # redis[k])
                deleted == Exists(redis, lockKey(u)) /\ ~Exists(redis', lockKey(u))
                                /\ now' = now
            IN /\ written => \E p \in Replicas :
                                /\ job[p].user_id = u
                                /\ job[p].pc = "record" /\ job'[p].pc = "release"
                                /\ redis'[k].val = job[p].stamp
               /\ deleted => \E p \in Replicas :
                                /\ job[p].user_id = u
                                /\ job[p].pc = "release" /\ job'[p].pc = "idle"]_vars

\* an item has been processed to the end: its time is stored, the lock is
\* deleted before its lease ran out and the job is completed
C16_Witness ==
    \E u \in SchedKeys :
        /\ Exists(redis, lastExecutionKey(u))
        /\ redis[lastExecutionKey(u)].val = now
        /\ now > 0
        /\ ~Exists(redis, lockKey(u))
        /\ \A p \in Replicas : job[p].pc = "idle"
        /\ bull.completed >= 1

\* C17: every counter in Redis has a TTL, in every state in which no call is
\* between its INCR and its EXPIRE (also after a call has ended there because
\* Redis went down).
C17_CounterHasTtl ==
    (\A r \in reqs : r.pc # "expire") =>
        \A k \in DOMAIN redis : k[1] = "rateLimit" => redis[k].exp > 0

\* the first instant of the minute after the one that holds time t
NextWindow(t) == (currentMinute(t) + 1) * MinuteMs

\* replica p takes this item from the queue in this step
Takes(p, item) ==
    /\ job[p].pc = "idle" /\ job'[p].pc = "acquire"
    /\ queue = queue' (+) SetToBag({item})

\* C18 as stated: the item of a call answered 429 becomes ready exactly at
\* the first instant of the minute after the one in which the call read the
\* clock.
C18_ReadyAtBoundary ==
    [][\A r \in reqs :
          (Completes(r) /\ resp'.status = 429) =>
              queue' = queue (+) SetToBag({Item(r.user_id, NextWindow(r.currentTime))})]_vars

\* C18: the item of a call answered 429 becomes ready at the first instant of
\* the minute after the one in which the call read the clock, or later, and
\* a worker takes a delayed item only once it is ready: the item is not
\* executed before the next minute begins.
C18_NotBeforeNextWindow ==
    [][ /\ \A r \in reqs :
            (Completes(r) /\ resp'.status = 429) =>
                LET readyAt == now + delayTime(r.currentTime)
                IN /\ queue' = queue (+) SetToBag({Item(r.user_id, readyAt)})
                   /\ readyAt >= NextWindow(r.currentTime)
        /\ \A p \in Replicas : \A item \in BagToSet(queue) :
            Takes(p, item) => item.readyAt <= now ]_vars

\* a worker runs task() in minute 1 on the item of the call that was answered
\* 429 in minute 0
C18_Witness ==
    \E p \in Replicas :
        /\ job[p].pc = "task"
        /\ lastInvoke[job[p].user_id] = now
        /\ currentMinute(now) = 1
        /\ bull.completed = tasksPerMinute
        /\ queue = EmptyBag
        /\ calls["u1"] = tasksPerMinute + 1
        /\ Exists(redis, exceededKey("u1"))

\* the call r takes a step
Steps(r) == r \in reqs /\ r \notin reqs'

\* C19: a call that finds the flag of its user in Redis goes straight to the
\* delayed add; neither that step nor the add changes any key of Redis (no
\* counter, not the flag), and the add puts one delayed item in the queue
\* and answers 429.
C19_FlagPathFrame ==
    [][\A r \in reqs :
          /\ (Steps(r) /\ storeUp /\ r.pc = "getFlag"
                  /\ Exists(redis, exceededKey(r.user_id))) =>
                /\ reqs' = (reqs \ {r}) \cup {[r EXCEPT !.pc = "addDelayed"]}
                /\ redis' = redis
                /\ queue' = queue
          /\ (Steps(r) /\ storeUp /\ r.pc = "addDelayed") =>
                /\ redis' = redis
                /\ resp' = Response(429, r, delayTime(r.currentTime))
                /\ queue' = queue (+)
                      SetToBag({Item(r.user_id, now + delayTime(r.currentTime))})
                /\ delayTime(r.currentTime) > 0]_vars

\* a call later than the one that set the flag has been answered 429 and the
\* counter is where the call that set the flag left it
C19_Witness ==
    LET k == rateLimitKey("u1", currentMinute(t0))
    IN /\ resp.status = 429
       /\ resp.k > tasksPerMinute + 1
       /\ Exists(redis, k)
       /\ redis[k].val = tasksPerMinute + 1
       /\ Exists(redis, exceededKey("u1"))

\* C20: the last execution time of a user, once in Redis, stays in Redis and
\* never gets smaller.
C20_LastExecutionMonotone ==
    [][\A u \in SchedKeys :
          LET k == lastExecutionKey(u)
          IN Exists(redis, k) =>
                /\ Exists(redis', k)
                /\ redis'[k].val >= redis[k].val]_vars

====
